---- MODULE Spec2Model ----
(***************************************************************************)
(* Goal progress and pace engine of techrisebot (src/goals.py,             *)
(* class GoalsCalculator).                                                 *)
(*                                                                         *)
(* Numbers.  The Python code works on floats obtained by dividing goal     *)
(* values.  The model draws goal values from a bounded set of integers and *)
(* carries every quotient as an exact fraction [n, d] in lowest terms with *)
(* d > 0, so that comparisons against 0, 80, 100 and the +-10 band are     *)
(* decided exactly.                                                        *)
(*                                                                         *)
(* Optional values.  Python's None is the empty tuple <<>>, a present      *)
(* value v is the one-element tuple <<v>>.                                 *)
(*                                                                         *)
(* Deadline strings.  A deadline text is the tuple of its dash-separated   *)
(* integer fields: <<2026, 1, 11>> is '2026-01-11', <<2026, 1>> is         *)
(* '2026-01', <<>> is the empty string ''.                                 *)
(***************************************************************************)
EXTENDS Integers, Sequences, FiniteSets, TLC

VARIABLES goal, today, op, ret, goals, progress_log, checkins, users, settings

vars == <<goal, today, op, ret, goals, progress_log, checkins, users, settings>>

\* the tables of the store: goals, progress_log, daily_checkins, users, settings
store == <<goals, progress_log, checkins, users, settings>>

(***************************************************************************)
(* Bounds of the model                                                     *)
(***************************************************************************)
\* goal values range over -MaxNeg .. MaxVal
MaxVal == 5
MaxNeg == 2
\* progress bars are drawn with lengths 0 .. MaxLength and with the default length
MaxLength == 4

Values == (0 - MaxNeg)..MaxVal

None == <<>>
Some(v) == <<v>>

\* deadline texts a goal record may carry
DeadlineStrs ==
    { <<>>,                 \* ''
      <<2026, 1>>,          \* '2026-01'     wrong shape
      <<2026, 13, 1>>,      \* '2026-13-01'  no such month
      <<2026, 2, 29>>,      \* '2026-02-29'  no such day (2026 is not a leap year)
      <<2025, 12, 31>>,     \* the day before the epoch
      <<2026, 1, 1>>,       \* the epoch itself
      <<2026, 1, 11>>,      \* 10 days after the epoch
      <<2026, 3, 2>>,       \* 60 days after the epoch
      <<2028, 2, 29>> }     \* a leap day

\* values of date.today()
Todays ==
    { [y |-> 2025, m |-> 12, d |-> 31],
      [y |-> 2026, m |-> 1, d |-> 1],
      [y |-> 2026, m |-> 1, d |-> 2],
      [y |-> 2026, m |-> 1, d |-> 6],
      [y |-> 2026, m |-> 1, d |-> 11],
      [y |-> 2026, m |-> 1, d |-> 21],
      [y |-> 2026, m |-> 3, d |-> 2] }

(***************************************************************************)
(* Exact fractions standing for Python floats                              *)
(***************************************************************************)
Abs(x) == IF x < 0 THEN 0 - x ELSE x

RECURSIVE GCD(_, _)
GCD(a, b) == IF b = 0 THEN a ELSE GCD(b, a % b)

\* the fraction n/d (d /= 0) in lowest terms with a positive denominator
Frac(n, d) ==
    LET g == GCD(Abs(n), Abs(d))
        s == IF d < 0 THEN 0 - 1 ELSE 1
    IN  [n |-> (s * n) \div g, d |-> (s * d) \div g]

Num(k) == [n |-> k, d |-> 1]

\* a / b  (true division)
TrueDiv(a, b) == Frac(a, b)

\* x * 100
Times100(x) == Frac(x.n * 100, x.d)

\* x + k for an integer k
PlusInt(x, k) == Frac(x.n + k * x.d, x.d)

Lt(x, y) == x.n * y.d < y.n * x.d
Le(x, y) == x.n * y.d <= y.n * x.d
Gt(x, y) == Lt(y, x)
Ge(x, y) == Le(y, x)

\* Python's min(a, b) and max(a, b): the first argument wins a tie
Min(a, b) == IF Lt(b, a) THEN b ELSE a
Max(a, b) == IF Gt(b, a) THEN b ELSE a

(***************************************************************************)
(* Dates: datetime.strptime(s, '%Y-%m-%d').date() and date subtraction     *)
(***************************************************************************)
IsLeap(y) == (y % 4 = 0) /\ ((y % 100 /= 0) \/ (y % 400 = 0))

DaysInMonth(y, m) ==
    IF m = 2 THEN (IF IsLeap(y) THEN 29 ELSE 28)
    ELSE IF m \in {4, 6, 9, 11} THEN 30 ELSE 31

\* strptime raises ValueError unless the text has the three fields of a real date
ValueError(s) ==
    ~ ( /\ Len(s) = 3
        /\ s[1] \in 1..9999
        /\ s[2] \in 1..12
        /\ s[3] \in 1..DaysInMonth(s[1], s[2]) )

strptime(s) == [y |-> s[1], m |-> s[2], d |-> s[3]]

RECURSIVE DaysBeforeMonth(_, _)
DaysBeforeMonth(y, m) ==
    IF m = 1 THEN 0 ELSE DaysBeforeMonth(y, m - 1) + DaysInMonth(y, m - 1)

\* proleptic Gregorian ordinal of a date
ToOrdinal(dt) ==
    LET y1 == dt.y - 1
    IN  y1 * 365 + (y1 \div 4) - (y1 \div 100) + (y1 \div 400)
        + DaysBeforeMonth(dt.y, dt.m) + dt.d

\* (a - b).days
DaysBetween(a, b) == ToOrdinal(a) - ToOrdinal(b)

\* date(2026, 1, 1)
start_of_year == [y |-> 2026, m |-> 1, d |-> 1]

\* Python truthiness of an optional string: None and '' are falsy
Falsy(deadline_str) == deadline_str = None \/ deadline_str[1] = <<>>

(***************************************************************************)
(* GoalsCalculator.days_until                                              *)
(***************************************************************************)
\* mutant: a deadline that falls today counts as passed
days_until_strict(deadline_str) ==
    IF Falsy(deadline_str) THEN None
    ELSE IF ValueError(deadline_str[1]) THEN None
    ELSE LET deadline == strptime(deadline_str[1])
             days == DaysBetween(deadline, today)
         IN  IF days > 0 THEN Some(days) ELSE None

days_until(deadline_str) ==
    IF Falsy(deadline_str) THEN None
    ELSE IF ValueError(deadline_str[1]) THEN None
    ELSE LET deadline == strptime(deadline_str[1])
             days == DaysBetween(deadline, today)
         IN  IF days >= 0 THEN Some(days) ELSE None

(***************************************************************************)
(* GoalsCalculator.calculate_progress_percent                              *)
(* The result carries the returned number (val) and the source line of the *)
(* return statement that produced it (line).                               *)
(***************************************************************************)
\* mutant: the zero-target guard is tested after the decreasing branch
percent_guard_late(current, target, initial) ==
    IF initial /= None /\ current > target
    THEN IF initial[1] = target
         THEN [val |-> IF current <= target THEN Num(100) ELSE Num(0), line |-> 73]
         ELSE [val |-> Max(Num(0), Min(Num(100),
                         Times100(TrueDiv(initial[1] - current, initial[1] - target)))),
               line |-> 75]
    ELSE IF target = 0 THEN [val |-> Num(0), line |-> 65]
    ELSE [val |-> Min(Num(100), Times100(TrueDiv(current, target))), line |-> 78]

\* mutant: the decreasing branch is entered on current >= target
percent_branch_ge(current, target, initial) ==
    IF target = 0 THEN [val |-> Num(0), line |-> 65]
    ELSE IF initial /= None /\ current >= target
    THEN IF initial[1] = target
         THEN [val |-> IF current <= target THEN Num(100) ELSE Num(0), line |-> 73]
         ELSE [val |-> Max(Num(0), Min(Num(100),
                         Times100(TrueDiv(initial[1] - current, initial[1] - target)))),
               line |-> 75]
    ELSE [val |-> Min(Num(100), Times100(TrueDiv(current, target))), line |-> 78]

\* mutant: the increasing branch forgets the factor 100
percent_no_scale(current, target, initial) ==
    IF target = 0 THEN [val |-> Num(0), line |-> 65]
    ELSE IF initial /= None /\ current > target
    THEN IF initial[1] = target
         THEN [val |-> IF current <= target THEN Num(100) ELSE Num(0), line |-> 73]
         ELSE [val |-> Max(Num(0), Min(Num(100),
                         Times100(TrueDiv(initial[1] - current, initial[1] - target)))),
               line |-> 75]
    ELSE [val |-> Min(Num(100), TrueDiv(current, target)), line |-> 78]

\* mutant: the decreasing branch measures the distance covered from the target
percent_dec_swapped(current, target, initial) ==
    IF target = 0 THEN [val |-> Num(0), line |-> 65]
    ELSE IF initial /= None /\ current > target
    THEN IF initial[1] = target
         THEN [val |-> IF current <= target THEN Num(100) ELSE Num(0), line |-> 73]
         ELSE [val |-> Max(Num(0), Min(Num(100),
                         Times100(TrueDiv(current - target, initial[1] - target)))),
               line |-> 75]
    ELSE [val |-> Min(Num(100), Times100(TrueDiv(current, target))), line |-> 78]

calculate_progress_percent(current, target, initial) ==
    IF target = 0 THEN [val |-> Num(0), line |-> 65]
    ELSE IF initial /= None /\ current > target
    THEN IF initial[1] = target
         THEN [val |-> IF current <= target THEN Num(100) ELSE Num(0), line |-> 73]
         ELSE LET progress ==
                    Times100(TrueDiv(initial[1] - current, initial[1] - target))
              IN  [val |-> Max(Num(0), Min(Num(100), progress)), line |-> 75]
    ELSE [val |-> Min(Num(100), Times100(TrueDiv(current, target))), line |-> 78]

(***************************************************************************)
(* GoalsCalculator.calculate_time_progress                                 *)
(***************************************************************************)
\* mutant: the result is capped at 100 but not raised to 0
time_progress_no_floor(deadline_str) ==
    IF Falsy(deadline_str) THEN None
    ELSE IF ValueError(deadline_str[1]) THEN None
    ELSE LET deadline == strptime(deadline_str[1])
             total_days == DaysBetween(deadline, start_of_year)
             passed_days == DaysBetween(today, start_of_year)
         IN  IF total_days <= 0 THEN None
             ELSE Some(Min(Num(100), Times100(TrueDiv(passed_days, total_days))))

\* mutant: a deadline not after the epoch counts as no time elapsed
time_progress_zero(deadline_str) ==
    IF Falsy(deadline_str) THEN None
    ELSE IF ValueError(deadline_str[1]) THEN None
    ELSE LET deadline == strptime(deadline_str[1])
             total_days == DaysBetween(deadline, start_of_year)
             passed_days == DaysBetween(today, start_of_year)
         IN  IF total_days <= 0 THEN Some(Num(0))
             ELSE Some(Max(Num(0), Min(Num(100),
                         Times100(TrueDiv(passed_days, total_days)))))

calculate_time_progress(deadline_str) ==
    IF Falsy(deadline_str) THEN None
    ELSE IF ValueError(deadline_str[1]) THEN None
    ELSE LET deadline == strptime(deadline_str[1])
             total_days == DaysBetween(deadline, start_of_year)
             passed_days == DaysBetween(today, start_of_year)
         IN  IF total_days <= 0 THEN None
             ELSE LET progress == Times100(TrueDiv(passed_days, total_days))
                  IN  Some(Max(Num(0), Min(Num(100), progress)))

(***************************************************************************)
(* GoalsCalculator.get_progress_status                                     *)
(***************************************************************************)
\* mutant: the on_track threshold of a goal without deadline is exclusive
status_gt80(g) ==
    LET current == g.current_value
        target == g.target_value
        deadline == g.deadline
        initial == g.initial_value
    IN  IF Falsy(deadline)
        THEN LET progress == calculate_progress_percent(current, target, initial).val
             IN  IF Ge(progress, Num(100)) THEN "completed"
                 ELSE IF Gt(progress, Num(80)) THEN "on_track"
                 ELSE "behind"
        ELSE LET value_progress == calculate_progress_percent(current, target, initial).val
                 time_progress == calculate_time_progress(deadline)
             IN  IF time_progress = None THEN "on_track"
                 ELSE IF Gt(value_progress, PlusInt(time_progress[1], 10)) THEN "ahead"
                 ELSE IF Lt(value_progress, PlusInt(time_progress[1], 0 - 10)) THEN "behind"
                 ELSE "on_track"

\* mutant: the band's bounds are inclusive
status_band_inclusive(g) ==
    LET current == g.current_value
        target == g.target_value
        deadline == g.deadline
        initial == g.initial_value
    IN  IF Falsy(deadline)
        THEN LET progress == calculate_progress_percent(current, target, initial).val
             IN  IF Ge(progress, Num(100)) THEN "completed"
                 ELSE IF Ge(progress, Num(80)) THEN "on_track"
                 ELSE "behind"
        ELSE LET value_progress == calculate_progress_percent(current, target, initial).val
                 time_progress == calculate_time_progress(deadline)
             IN  IF time_progress = None THEN "on_track"
                 ELSE IF Ge(value_progress, PlusInt(time_progress[1], 10)) THEN "ahead"
                 ELSE IF Le(value_progress, PlusInt(time_progress[1], 0 - 10)) THEN "behind"
                 ELSE "on_track"

\* mutant: completion is tested before the deadline is looked at
status_completed_first(g) ==
    LET current == g.current_value
        target == g.target_value
        deadline == g.deadline
        initial == g.initial_value
        progress == calculate_progress_percent(current, target, initial).val
    IN  IF Ge(progress, Num(100)) THEN "completed"
        ELSE IF Falsy(deadline)
        THEN IF Ge(progress, Num(80)) THEN "on_track" ELSE "behind"
        ELSE LET time_progress == calculate_time_progress(deadline)
             IN  IF time_progress = None THEN "on_track"
                 ELSE IF Gt(progress, PlusInt(time_progress[1], 10)) THEN "ahead"
                 ELSE IF Lt(progress, PlusInt(time_progress[1], 0 - 10)) THEN "behind"
                 ELSE "on_track"

get_progress_status(g) ==
    LET current == g.current_value
        target == g.target_value
        deadline == g.deadline
        initial == g.initial_value
    IN  IF Falsy(deadline)
        THEN LET progress == calculate_progress_percent(current, target, initial).val
             IN  IF Ge(progress, Num(100)) THEN "completed"
                 ELSE IF Ge(progress, Num(80)) THEN "on_track"
                 ELSE "behind"
        ELSE LET value_progress == calculate_progress_percent(current, target, initial).val
                 time_progress == calculate_time_progress(deadline)
             IN  IF time_progress = None THEN "on_track"
                 ELSE IF Gt(value_progress, PlusInt(time_progress[1], 10)) THEN "ahead"
                 ELSE IF Lt(value_progress, PlusInt(time_progress[1], 0 - 10)) THEN "behind"
                 ELSE "on_track"

(***************************************************************************)
(* GoalsCalculator.format_progress_bar                                     *)
(* The bar is carried as its two glyph counts (filled, empty); label is    *)
(* the number printed after it by the format '{percent:.0f}'.              *)
(***************************************************************************)
\* default of the parameter length
DefaultLength == 10

Lengths == (0..MaxLength) \cup {DefaultLength}

\* int(x): truncation towards zero
IntTrunc(x) == IF x.n >= 0 THEN x.n \div x.d ELSE 0 - ((0 - x.n) \div x.d)

\* format(x, '.0f'): the nearest integer, a tie going to the even one
FormatF0(x) ==
    LET fl == x.n \div x.d
        twice == 2 * (x.n - fl * x.d)
    IN  IF twice < x.d THEN fl
        ELSE IF twice > x.d THEN fl + 1
        ELSE IF fl % 2 = 0 THEN fl ELSE fl + 1

\* len(glyph * n): a negative repeat count gives the empty string
Repeat(n) == IF n > 0 THEN n ELSE 0

format_progress_bar(percent, length) ==
    LET filled == IntTrunc(Frac(percent.n * length, percent.d * 100))
    IN  [ percent |-> percent,
          length  |-> length,
          filled  |-> Repeat(filled),
          empty   |-> Repeat(length - filled),
          label   |-> FormatF0(percent) ]

(***************************************************************************)
(* The state machine: a goal record as the store hands it over, the value  *)
(* of date.today(), and the calculator's calls on them.  op names the last *)
(* call made and ret holds what it returned.                               *)
(***************************************************************************)
Goals ==
    [ current_value : Values,
      target_value  : Values,
      initial_value : {None} \cup {Some(v) : v \in Values},
      deadline      : {None} \cup {Some(s) : s \in DeadlineStrs} ]

Init ==
    /\ goal \in Goals
    /\ today \in Todays
    /\ op = "none"
    /\ ret = None
    /\ goals = <<>>
    /\ progress_log = <<>>
    /\ checkins = {}
    /\ users = <<>>
    /\ settings = {}

CallPercent ==
    /\ op' = "calculate_progress_percent"
    /\ ret' = calculate_progress_percent(goal.current_value, goal.target_value,
                                         goal.initial_value)
    /\ UNCHANGED <<goal, today, store>>

CallTimeProgress ==
    /\ op' = "calculate_time_progress"
    /\ ret' = calculate_time_progress(goal.deadline)
    /\ UNCHANGED <<goal, today, store>>

CallDaysUntil ==
    /\ op' = "days_until"
    /\ ret' = days_until(goal.deadline)
    /\ UNCHANGED <<goal, today, store>>

CallStatus ==
    /\ op' = "get_progress_status"
    /\ ret' = get_progress_status(goal)
    /\ UNCHANGED <<goal, today, store>>

CallFormatBar ==
    \E length \in Lengths :
        /\ op' = "format_progress_bar"
        /\ ret' = format_progress_bar(
                     calculate_progress_percent(goal.current_value, goal.target_value,
                                                goal.initial_value).val,
                     length)
        /\ UNCHANGED <<goal, today, store>>

Next ==
    \/ CallPercent
    \/ CallTimeProgress
    \/ CallDaysUntil
    \/ CallStatus
    \/ CallFormatBar

Spec == Init /\ [][Next]_vars

(***************************************************************************)
(* The store (src/database_supabase.py).                                   *)
(*   goals         the rows of table goals, in insertion order             *)
(*   progress_log  the rows of table progress_log, in insertion order      *)
(*   checkins      the rows of table daily_checkins; a row's date is       *)
(*                 carried as the ordinal of the day it names              *)
(* Category names are transliterated: finansy, sport, pokupki,             *)
(* puteshestviya.                                                          *)
(***************************************************************************)
Users == {"u1", "u2"}

\* the place of a category name in the collation of the source's names
\* ('покупки' < 'путешествия' < 'спорт' < 'финансы')
CategoryRank(c) ==
    IF c = "pokupki" THEN 1
    ELSE IF c = "puteshestviya" THEN 2
    ELSE IF c = "sport" THEN 3
    ELSE 4

\* lexicographic order of two deadline texts
RECURSIVE TextLe(_, _)
TextLe(a, b) ==
    IF a = <<>> THEN TRUE
    ELSE IF b = <<>> THEN FALSE
    ELSE IF a[1] /= b[1] THEN a[1] < b[1]
    ELSE TextLe(Tail(a), Tail(b))

\* .order('deadline', desc=False).order('category', desc=False): ascending
\* deadlines with the absent ones last, then ascending categories
GoalOrderLe(a, b) ==
    IF a.deadline /= b.deadline
    THEN IF a.deadline = None THEN FALSE
         ELSE IF b.deadline = None THEN TRUE
         ELSE TextLe(a.deadline[1], b.deadline[1])
    ELSE CategoryRank(a.category) <= CategoryRank(b.category)

Front(s) == SubSeq(s, 1, Len(s) - 1)
Last(s) == s[Len(s)]

RECURSIVE InsertGoal(_, _)
InsertGoal(sorted, g) ==
    IF sorted = <<>> THEN <<g>>
    ELSE IF GoalOrderLe(Last(sorted), g) THEN Append(sorted, g)
    ELSE Append(InsertGoal(Front(sorted), g), Last(sorted))

RECURSIVE OrderGoals(_)
OrderGoals(s) ==
    IF s = <<>> THEN <<>> ELSE InsertGoal(OrderGoals(Front(s)), Last(s))

\* SupabaseDatabase.get_user_goals
get_user_goals(user_id, category) ==
    LET Mine(g) == /\ g.user_id = user_id
                   /\ (category = None \/ category[1] = "" \/ g.category = category[1])
    IN  OrderGoals(SelectSeq(goals, Mine))

\* timedelta(days=7)
WeekWindow == 7

RECURSIVE DateDescending(_)
DateDescending(rows) ==
    IF rows = {} THEN <<>>
    ELSE LET newest == CHOOSE r \in rows : \A q \in rows : q.date <= r.date
         IN  <<newest>> \o DateDescending(rows \ {newest})

\* SupabaseDatabase.get_weekly_checkins
get_weekly_checkins(user_id) ==
    LET seven_days_ago == ToOrdinal(today) - WeekWindow
    IN  DateDescending({c \in checkins :
                          c.user_id = user_id /\ c.date >= seven_days_ago})

(***************************************************************************)
(* Reports of GoalsCalculator and the morning notification                 *)
(***************************************************************************)
\* a + b on fractions
AddFrac(a, b) == Frac(a.n * b.d + b.n * a.d, a.d * b.d)

RECURSIVE SumSeq(_)
SumSeq(s) == IF s = <<>> THEN Num(0) ELSE AddFrac(s[1], SumSeq(Tail(s)))

\* s[:n]
Take(s, n) == SubSeq(s, 1, IF Len(s) < n THEN Len(s) ELSE n)

\* date.today().timetuple().tm_yday
day_of_year == ToOrdinal(today) - ToOrdinal([y |-> today.y, m |-> 1, d |-> 1]) + 1

goal_percent(g) ==
    calculate_progress_percent(g.current_value, g.target_value, g.initial_value).val

\* the loop "for goal in goals" filling the dict categories, whose keys keep
\* the order in which they were first met
RECURSIVE GroupInto(_, _)
GroupInto(categories, gs) ==
    IF gs = <<>> THEN categories
    ELSE LET before == GroupInto(categories, Front(gs))
             g == Last(gs)
         IN  IF \E i \in 1..Len(before) : before[i].cat = g.category
             THEN [i \in 1..Len(before) |->
                     IF before[i].cat = g.category
                     THEN [before[i] EXCEPT !.goals = Append(@, g)]
                     ELSE before[i]]
             ELSE Append(before, [cat |-> g.category, goals |-> <<g>>])

\* mutant: the dict starts with an empty list for every category of emoji_map
group_prefilled(gs) ==
    GroupInto(<< [cat |-> "finansy", goals |-> <<>>],
                 [cat |-> "sport", goals |-> <<>>],
                 [cat |-> "pokupki", goals |-> <<>>],
                 [cat |-> "puteshestviya", goals |-> <<>>] >>, gs)

\* categories = {} followed by the loop
group_by_category(gs) == GroupInto(<<>>, gs)

\* mutant: the category figure is weighted by the targets
category_progress_weighted(cat_goals) ==
    IF cat_goals = <<>> THEN Num(0)
    ELSE LET cur == SumSeq([i \in 1..Len(cat_goals) |-> Num(cat_goals[i].current_value)])
             tgt == SumSeq([i \in 1..Len(cat_goals) |-> Num(cat_goals[i].target_value)])
         IN  IF tgt.n = 0 THEN Num(0) ELSE Times100(TrueDiv(cur.n, tgt.n))

\* total_progress of one category
category_progress(cat_goals) ==
    IF cat_goals /= <<>>
    THEN LET total == SumSeq([i \in 1..Len(cat_goals) |-> goal_percent(cat_goals[i])])
         IN  Frac(total.n, total.d * Len(cat_goals))
    ELSE Num(0)

\* bounds of "if days and 0 < days < 60" and of the slice [:5]
SummaryHorizon == 60
SummaryTop == 5
\* bounds of "if days and 0 < days < 30" and of the slice [:3]
MorningHorizon == 30
MorningTop == 3

\* the list of (goal, days) pairs with "days and 0 < days < horizon"
upcoming(gs, horizon) ==
    LET pairs == [i \in 1..Len(gs) |->
                    [goal |-> gs[i], days |-> days_until(gs[i].deadline)]]
        Near(x) == /\ x.days /= None
                   /\ x.days[1] /= 0
                   /\ 0 < x.days[1]
                   /\ x.days[1] < horizon
        near == SelectSeq(pairs, Near)
    IN  [i \in 1..Len(near) |-> [goal |-> near[i].goal, days |-> near[i].days[1]]]

\* sorted(pairs, key=lambda x: x[1]): stable, ascending days
RECURSIVE InsertByDays(_, _)
InsertByDays(sorted, x) ==
    IF sorted = <<>> THEN <<x>>
    ELSE IF Last(sorted).days <= x.days THEN Append(sorted, x)
    ELSE Append(InsertByDays(Front(sorted), x), Last(sorted))

RECURSIVE SortedByDays(_)
SortedByDays(s) ==
    IF s = <<>> THEN <<>> ELSE InsertByDays(SortedByDays(Front(s)), Last(s))

\* mutant: a deadline exactly SummaryHorizon days away is listed too
summary_deadlines_inclusive(gs) ==
    Take(SortedByDays(upcoming(gs, SummaryHorizon + 1)), SummaryTop)

\* get_today_summary: the lines under "Ближайшие дедлайны"
summary_deadlines(gs) ==
    Take(SortedByDays(upcoming(gs, SummaryHorizon)), SummaryTop)

\* send_morning_notification: the lines "До дедлайна ... осталось"
morning_deadlines(gs) ==
    Take(SortedByDays(upcoming(gs, MorningHorizon)), MorningTop)

\* get_today_summary
get_today_summary(user_id) ==
    LET gs == get_user_goals(user_id, None)
        categories == group_by_category(gs)
    IN  [ day        |-> day_of_year,
          deadlines  |-> summary_deadlines(gs),
          categories |-> [i \in 1..Len(categories) |->
                            LET total_progress == category_progress(categories[i].goals)
                            IN  [ cat            |-> categories[i].cat,
                                  total_progress |-> total_progress,
                                  label          |-> FormatF0(total_progress) ]] ]

\* get_goals_list: one block per category, one line per goal
get_goals_list(user_id) ==
    LET gs == get_user_goals(user_id, None)
        categories == group_by_category(gs)
        Line(g) ==
            LET progress == goal_percent(g)
                status == get_progress_status(g)
                days == IF Falsy(g.deadline) THEN None ELSE days_until(g.deadline)
            IN  [ name   |-> g.name,
                  status |-> IF days /= None THEN Some(status) ELSE None,
                  days   |-> days,
                  label  |-> FormatF0(progress) ]
    IN  [i \in 1..Len(categories) |->
           [ cat   |-> categories[i].cat,
             lines |-> [j \in 1..Len(categories[i].goals) |->
                          Line(categories[i].goals[j])] ]]

\* mutant: the week is taken to hold seven records
weekly_workouts_7(cs) ==
    Len(SelectSeq(Take(cs, WeekWindow), LAMBDA c : c.workout))

\* sum(1 for c in checkins if c.get('workout'))
weekly_workouts(cs) == Len(SelectSeq(cs, LAMBDA c : c.workout))

\* sum(c.get('income', 0) for c in checkins)
RECURSIVE weekly_income(_)
weekly_income(cs) == IF cs = <<>> THEN 0 ELSE cs[1].income + weekly_income(Tail(cs))

\* get_weekly_report
get_weekly_report(user_id) ==
    LET cs == get_weekly_checkins(user_id)
        gs == get_user_goals(user_id, None)
        shown == Take(gs, 5)
    IN  [ workouts_count |-> weekly_workouts(cs),
          total_income   |-> weekly_income(cs),
          records        |-> Len(cs),
          bars           |-> [i \in 1..Len(shown) |->
                                [ name |-> shown[i].name,
                                  bar  |-> format_progress_bar(goal_percent(shown[i]),
                                                               DefaultLength) ]] ]

\* send_morning_notification: the message composed for one user
morning_message(user_id) ==
    LET gs == get_user_goals(user_id, None)
        categories == group_by_category(gs)
        Behind(c) == \E j \in 1..Len(c.goals) : get_progress_status(c.goals[j]) = "behind"
        OnTrack(c) == ~ Behind(c)
        on_track == SelectSeq(categories, OnTrack)
        need_speed == SelectSeq(categories, Behind)
    IN  [ day        |-> day_of_year,
          upcoming   |-> morning_deadlines(gs),
          on_track   |-> [i \in 1..Len(on_track) |-> on_track[i].cat],
          need_speed |-> [i \in 1..Len(need_speed) |-> need_speed[i].cat] ]

(***************************************************************************)
(* The reports as a state machine: the store holds some of the goals of a  *)
(* catalogue and some daily check-ins, and a report is asked for.          *)
(***************************************************************************)
\* check-ins are dated BaseDay - MaxBack .. BaseDay
MaxBack == 8

GoalRow(id, user_id, category, name, target, current, initial, deadline) ==
    [ id |-> id, user_id |-> user_id, category |-> category, name |-> name,
      target_value |-> target, current_value |-> current,
      initial_value |-> initial, deadline |-> deadline ]

GoalCatalogue ==
    << GoalRow(1, "u1", "finansy", "g1", 5, 2, None, Some(<<2026, 1, 2>>)),
       GoalRow(2, "u1", "finansy", "g2", 5, 3, None, Some(<<2026, 1, 11>>)),
       GoalRow(3, "u1", "sport", "g3", 2, 4, Some(5), Some(<<2026, 1, 11>>)),
       GoalRow(4, "u1", "sport", "g4", 4, 0, None, None),
       GoalRow(5, "u1", "pokupki", "g5", 1, 1, None, Some(<<2026, 1, 30>>)),
       GoalRow(6, "u1", "pokupki", "g6", 0, 3, None, Some(<<2026, 1, 31>>)),
       GoalRow(7, "u1", "puteshestviya", "g7", 5, 4, None, Some(<<2026, 3, 1>>)),
       GoalRow(8, "u1", "puteshestviya", "g8", 1, 0 - 1, None, Some(<<2026, 3, 2>>)),
       GoalRow(9, "u1", "finansy", "g9", 2, 5, None, Some(<<2025, 12, 31>>)),
       GoalRow(10, "u1", "sport", "g10", 5, 1, None, Some(<<2026, 1, 1>>)),
       GoalRow(11, "u1", "pokupki", "g11", 4, 1, None, Some(<<2026, 2, 29>>)),
       GoalRow(12, "u2", "finansy", "g12", 5, 5, None, Some(<<2026, 1, 6>>)) >>

GoalTable(ids) == SelectSeq(GoalCatalogue, LAMBDA g : g.id \in ids)

ReportDays ==
    { [y |-> 2026, m |-> 1, d |-> 1],
      [y |-> 2026, m |-> 1, d |-> 2] }

BaseDay == ToOrdinal([y |-> 2026, m |-> 1, d |-> 2])

\* the check-in of u1 dated BaseDay - k: a workout day with an income of 1000
\* within the last WeekWindow days before BaseDay, a rest day with an income
\* of 2000 before them
CheckinRow(k) ==
    [ user_id |-> "u1", date |-> BaseDay - k,
      workout |-> (k <= WeekWindow),
      income  |-> IF k <= WeekWindow THEN 1000 ELSE 2000 ]

OtherCheckins ==
    { [user_id |-> "u2", date |-> BaseDay, workout |-> TRUE, income |-> 5000] }

CheckinTable(offsets) == {CheckinRow(k) : k \in offsets} \cup OtherCheckins

\* the rows of progress_log, users and settings held while the reports run
ReportLog ==
    << [user_id |-> "u1", goal_id |-> 1, value |-> 2, note |-> None] >>

ReportUsers ==
    << [id |-> "u1", telegram_user_id |-> 101, is_active |-> TRUE],
       [id |-> "u2", telegram_user_id |-> 102, is_active |-> TRUE] >>

ReportSettings ==
    { [user_id |-> "u1", key |-> "notifications_enabled", value |-> "on"] }

\* the goals held while the check-ins vary
FewGoals == {1, 2, 12}

NoGoal ==
    [current_value |-> 0, target_value |-> 0, initial_value |-> None, deadline |-> None]

ReportInit ==
    /\ today \in ReportDays
    /\ \E ids \in SUBSET (1..Len(GoalCatalogue)), offsets \in SUBSET (0..MaxBack) :
          /\ ids = FewGoals \/ offsets = {}
          /\ goals = GoalTable(ids)
          /\ checkins = CheckinTable(offsets)
    /\ progress_log = ReportLog
    /\ users = ReportUsers
    /\ settings = ReportSettings
    /\ goal = NoGoal
    /\ op = "none"
    /\ ret = None

ReportTodaySummary ==
    \E user_id \in Users :
        /\ op' = "get_today_summary"
        /\ ret' = [user_id |-> user_id, report |-> get_today_summary(user_id)]
        /\ UNCHANGED <<goal, today, store>>

\* mutant: the list keeps the status it computed in the goal rows
ReportGoalsListStoring ==
    \E user_id \in Users :
        /\ op' = "get_goals_list"
        /\ ret' = [user_id |-> user_id, report |-> get_goals_list(user_id)]
        /\ goals' = [i \in DOMAIN goals |->
                        IF goals[i].user_id = user_id
                        THEN [f \in DOMAIN goals[i] \cup {"status"} |->
                                IF f = "status" THEN get_progress_status(goals[i])
                                ELSE goals[i][f]]
                        ELSE goals[i]]
        /\ UNCHANGED <<goal, today, progress_log, checkins, users, settings>>

ReportGoalsList ==
    \E user_id \in Users :
        /\ op' = "get_goals_list"
        /\ ret' = [user_id |-> user_id, report |-> get_goals_list(user_id)]
        /\ UNCHANGED <<goal, today, store>>

ReportWeekly ==
    \E user_id \in Users :
        /\ op' = "get_weekly_report"
        /\ ret' = [user_id |-> user_id, report |-> get_weekly_report(user_id)]
        /\ UNCHANGED <<goal, today, store>>

\* send_morning_notification: the texts sent, one per user
MorningNotification ==
    /\ op' = "send_morning_notification"
    /\ ret' = [user_id \in Users |-> morning_message(user_id)]
    /\ UNCHANGED <<goal, today, store>>

ReportNext ==
    \/ ReportTodaySummary
    \/ ReportGoalsList
    \/ ReportWeekly
    \/ MorningNotification

ReportSpec == ReportInit /\ [][ReportNext]_vars

(***************************************************************************)
(* Properties                                                              *)
(***************************************************************************)
Called(name) == op = name

Labels == {"completed", "ahead", "on_track", "behind"}

\* the percent the code computes for the goal record in hand
GoalPercent ==
    calculate_progress_percent(goal.current_value, goal.target_value,
                               goal.initial_value).val

\* a deadline that is present and not the empty string
HasDeadline == goal.deadline /= None /\ goal.deadline[1] /= <<>>

\* C1: for every target > 0 and every current, with no initial value,
\* calculate_progress_percent returns p with 0 <= p <= 100.
C1_PercentInRange ==
    ( /\ Called("calculate_progress_percent")
      /\ goal.target_value > 0
      /\ goal.initial_value = None )
    => /\ ret.val.n >= 0
       /\ ret.val.n <= 100 * ret.val.d

\* C2: for every current and every initial (absent or a number),
\* calculate_progress_percent(current, 0, initial) returns 0.
C2_ZeroTargetZero ==
    ( /\ Called("calculate_progress_percent")
      /\ goal.target_value = 0 )
    => ret.val = Num(0)

\* C2 witness: a zero target with a baseline and a current value above it
C2_Witness ==
    /\ Called("calculate_progress_percent")
    /\ goal.target_value = 0
    /\ goal.initial_value /= None
    /\ goal.initial_value[1] > goal.current_value
    /\ goal.current_value > 0
    /\ ret.val = Num(0)

\* C3 as stated: for every initial > target, percent(initial, target, initial)
\* is 0 and percent(target, target, initial) is 100.
C3_DecreasingEndpoints ==
    ( /\ Called("calculate_progress_percent")
      /\ goal.initial_value /= None
      /\ goal.initial_value[1] > goal.target_value )
    => /\ (goal.current_value = goal.initial_value[1] => ret.val = Num(0))
       /\ (goal.current_value = goal.target_value => ret.val = Num(100))

\* C3 amended: for every initial > target with target /= 0,
\* percent(initial, target, initial) is 0 and percent(target, target, initial)
\* is 100.
C3_DecreasingEndpointsNonZero ==
    ( /\ Called("calculate_progress_percent")
      /\ goal.initial_value /= None
      /\ goal.initial_value[1] > goal.target_value
      /\ goal.target_value /= 0 )
    => /\ (goal.current_value = goal.initial_value[1] => ret.val = Num(0))
       /\ (goal.current_value = goal.target_value => ret.val = Num(100))

\* C3 witness: a decreasing goal that sits on its non-zero target
C3_Witness ==
    /\ Called("calculate_progress_percent")
    /\ goal.initial_value /= None
    /\ goal.initial_value[1] > goal.target_value
    /\ goal.target_value /= 0
    /\ goal.current_value = goal.target_value
    /\ ret.val = Num(100)

\* C4: with no initial value, percent(target, target) is 100 for every
\* non-zero target.
C4_TargetReached ==
    ( /\ Called("calculate_progress_percent")
      /\ goal.initial_value = None
      /\ goal.target_value /= 0
      /\ goal.current_value = goal.target_value )
    => ret.val = Num(100)

\* C4 witness: a goal without baseline whose current value is its negative target
C4_Witness ==
    /\ Called("calculate_progress_percent")
    /\ goal.initial_value = None
    /\ goal.target_value < 0
    /\ goal.current_value = goal.target_value
    /\ ret.val = Num(100)

C6_InitialEqualsTarget ==
    ( /\ Called("calculate_progress_percent")
      /\ goal.initial_value /= None
      /\ goal.initial_value[1] = goal.target_value
      /\ goal.target_value /= 0 )
    => /\ (goal.current_value <= goal.target_value => ret.val = Num(100))
       /\ (goal.current_value > goal.target_value => ret.val = Num(0))

\* C7: for a goal without deadline get_progress_status returns completed when
\* percent >= 100, on_track when 80 <= percent < 100 and behind otherwise, never
\* ahead; for any goal the result is one of the four labels.
C7_NoDeadlineStatus ==
    Called("get_progress_status")
    => /\ ret \in Labels
       /\ Falsy(goal.deadline) =>
            LET p == GoalPercent
            IN  ret = IF p.n >= 100 * p.d THEN "completed"
                      ELSE IF p.n >= 80 * p.d THEN "on_track"
                      ELSE "behind"

\* C7 witness: a goal without deadline at exactly 80 percent is on_track
C7_Witness ==
    /\ Called("get_progress_status")
    /\ goal.deadline = None
    /\ GoalPercent = Num(80)
    /\ ret = "on_track"

\* C8: for a goal with a deadline whose time progress is available,
\* get_progress_status returns ahead exactly when value_progress >
\* time_progress + 10, behind exactly when value_progress < time_progress - 10,
\* and on_track otherwise (a difference of exactly +10 or -10 is on_track).
C8_DeadlineBand ==
    ( /\ Called("get_progress_status")
      /\ HasDeadline
      /\ calculate_time_progress(goal.deadline) /= None )
    => LET v == GoalPercent
           t == calculate_time_progress(goal.deadline)[1]
           above == v.n * t.d > (t.n + 10 * t.d) * v.d
           below == v.n * t.d < (t.n - 10 * t.d) * v.d
       IN  /\ (ret = "ahead") <=> above
           /\ (ret = "behind") <=> below
           /\ (ret = "on_track") <=> (~ above /\ ~ below)

\* C8 witness: value progress exactly 10 points above time progress, on_track
C8_Witness ==
    /\ Called("get_progress_status")
    /\ HasDeadline
    /\ calculate_time_progress(goal.deadline) /= None
    /\ LET v == GoalPercent
           t == calculate_time_progress(goal.deadline)[1]
       IN  /\ t.n > 0
           /\ v.n * t.d = (t.n + 10 * t.d) * v.d
    /\ ret = "on_track"

\* the deadline text does not parse, or names a day on or before 2026-01-01
NoTimeAxis ==
    LET s == goal.deadline[1]
    IN  \/ Len(s) /= 3
        \/ s[2] \notin 1..12
        \/ s[3] \notin 1..DaysInMonth(s[1], s[2])
        \/ s[1] < 2026
        \/ s = <<2026, 1, 1>>

\* C9: for a goal with a non-empty deadline whose time progress is absent
\* (unparseable deadline, or deadline on or before the epoch 2026-01-01),
\* get_progress_status returns on_track whatever current, target and initial are.
C9_NoTimeProgressOnTrack ==
    ( /\ Called("get_progress_status")
      /\ HasDeadline
      /\ NoTimeAxis )
    => ret = "on_track"

\* C9 witness: a goal whose deadline is the epoch and whose value is at target
C9_Witness ==
    /\ Called("get_progress_status")
    /\ goal.deadline = Some(<<2026, 1, 1>>)
    /\ GoalPercent = Num(100)
    /\ ret = "on_track"

\* C10: for a goal with a non-empty deadline get_progress_status never returns
\* completed, even when percent-complete is 100.
C10_DeadlineNeverCompleted ==
    ( /\ Called("get_progress_status")
      /\ HasDeadline )
    => ret /= "completed"

\* C10 witness: a goal with a parseable future deadline at 100 percent
C10_Witness ==
    /\ Called("get_progress_status")
    /\ HasDeadline
    /\ calculate_time_progress(goal.deadline) /= None
    /\ GoalPercent = Num(100)
    /\ ret \in {"ahead", "on_track"}

\* the deadline text is not the text of a calendar date
Unparseable(s) ==
    \/ Len(s) /= 3
    \/ s[2] \notin 1..12
    \/ s[3] \notin 1..DaysInMonth(s[1], s[2])

\* the date a comes strictly before the date b
Before(a, b) ==
    \/ a.y < b.y
    \/ a.y = b.y /\ a.m < b.m
    \/ a.y = b.y /\ a.m = b.m /\ a.d < b.d

\* C11: calculate_time_progress returns absent when the deadline is missing,
\* unparseable or not after the epoch; otherwise it returns (days from epoch to
\* today) / (days from epoch to deadline) * 100 clamped into [0, 100], for every
\* today, also before the epoch and after the deadline.
C11_TimeProgress ==
    Called("calculate_time_progress")
    => LET absent == Falsy(goal.deadline) \/ NoTimeAxis
       IN  /\ (ret = None) <=> absent
           /\ (~ absent) =>
                LET dl == goal.deadline[1]
                    total == ToOrdinal([y |-> dl[1], m |-> dl[2], d |-> dl[3]])
                             - ToOrdinal(start_of_year)
                    passed == ToOrdinal(today) - ToOrdinal(start_of_year)
                IN  ret = Some(IF passed < 0 THEN Num(0)
                               ELSE IF passed > total THEN Num(100)
                               ELSE Frac(passed * 100, total))

\* C11 witness: a deadline after the epoch asked about on a day before the epoch
C11_Witness ==
    /\ Called("calculate_time_progress")
    /\ goal.deadline = Some(<<2026, 1, 11>>)
    /\ Before(today, start_of_year)
    /\ ret = Some(Num(0))

\* C12: days_until returns absent when the deadline is missing, unparseable or
\* strictly before today, and otherwise the number of days from today to the
\* deadline; the result is never negative, and a deadline equal to today yields
\* 0 rather than absent.
C12_DaysUntil ==
    Called("days_until")
    => LET absent == \/ Falsy(goal.deadline)
                     \/ Unparseable(goal.deadline[1])
                     \/ Before(strptime(goal.deadline[1]), today)
       IN  /\ (ret = None) <=> absent
           /\ (~ absent) =>
                /\ ret = Some(ToOrdinal(strptime(goal.deadline[1])) - ToOrdinal(today))
                /\ ret[1] >= 0
                /\ (strptime(goal.deadline[1]) = today => ret = Some(0))

\* C12 witness: a deadline that falls today
C12_Witness ==
    /\ Called("days_until")
    /\ HasDeadline
    /\ ~ Unparseable(goal.deadline[1])
    /\ strptime(goal.deadline[1]) = today
    /\ ret = Some(0)

\* C17: for every percent calculate_progress_percent can return and every
\* length >= 0, format_progress_bar renders exactly `length` glyphs, of which
\* floor(percent / 100 * length) are filled and the rest empty.
C17_BarLength ==
    Called("format_progress_bar")
    => LET floor == (ret.percent.n * ret.length) \div (ret.percent.d * 100)
       IN  /\ ret.filled + ret.empty = ret.length
           /\ ret.filled = floor
           /\ ret.empty = ret.length - floor

(***************************************************************************)
(* Properties of the reports (ReportSpec)                                  *)
(***************************************************************************)
\* the rows of table goals owned by user_id
GoalsOf(user_id) ==
    {goals[i] : i \in {j \in DOMAIN goals : goals[j].user_id = user_id}}

\* the sum of calculate_progress_percent over a set of goals
RECURSIVE SumPercent(_)
SumPercent(S) ==
    IF S = {} THEN Num(0)
    ELSE LET g == CHOOSE x \in S : TRUE
         IN  AddFrac(goal_percent(g), SumPercent(S \ {g}))

\* C13: in get_today_summary the figure of each category is the unweighted
\* arithmetic mean of calculate_progress_percent over exactly the goals of
\* that category, and every goal of the user contributes to exactly one
\* category figure.
C13_CategoryMean ==
    Called("get_today_summary")
    => LET mine == GoalsOf(ret.user_id)
           figures == ret.report.categories
       IN  /\ {figures[i].cat : i \in DOMAIN figures} = {g.category : g \in mine}
           /\ \A i, j \in DOMAIN figures : figures[i].cat = figures[j].cat => i = j
           /\ \A i \in DOMAIN figures :
                LET S == {g \in mine : g.category = figures[i].cat}
                    total == SumPercent(S)
                IN  figures[i].total_progress = Frac(total.n, total.d * Cardinality(S))

\* C13 witness: two goals at 40% and 60% are the goals of one category, whose
\* figure is 50%
C13_Witness ==
    /\ Called("get_today_summary")
    /\ ret.user_id = "u1"
    /\ {g.id : g \in {x \in GoalsOf("u1") : x.category = "finansy"}} = {1, 2}
    /\ goal_percent(GoalCatalogue[1]) = Num(40)
    /\ goal_percent(GoalCatalogue[2]) = Num(60)
    /\ \E i \in DOMAIN ret.report.categories :
          /\ ret.report.categories[i].cat = "finansy"
          /\ ret.report.categories[i].total_progress = Num(50)
          /\ ret.report.categories[i].label = 50

\* the days from today to the date a deadline text names
DaysTo(deadline_str) == ToOrdinal(strptime(deadline_str[1])) - ToOrdinal(today)

\* the goals of user_id whose deadline lies more than 0 and less than horizon
\* days ahead
Due(user_id, horizon) ==
    {g \in GoalsOf(user_id) :
        /\ ~ Falsy(g.deadline)
        /\ ~ Unparseable(g.deadline[1])
        /\ 0 < DaysTo(g.deadline)
        /\ DaysTo(g.deadline) < horizon}

\* listing holds the first `top` goals of Due(user_id, horizon) in ascending
\* order of the days remaining
FirstDue(listing, user_id, horizon, top) ==
    LET due == Due(user_id, horizon)
        listed == {listing[i].goal : i \in DOMAIN listing}
    IN  /\ Len(listing) = IF Cardinality(due) < top THEN Cardinality(due) ELSE top
        /\ \A i \in DOMAIN listing :
              /\ listing[i].goal \in due
              /\ listing[i].days = DaysTo(listing[i].goal.deadline)
        /\ \A i, j \in DOMAIN listing :
              i < j => /\ listing[i].days <= listing[j].days
                       /\ listing[i].goal /= listing[j].goal
        /\ \A g \in due \ listed :
              \A i \in DOMAIN listing : listing[i].days <= DaysTo(g.deadline)

\* C14: the daily summary lists exactly the goals with 0 < days_until < 60,
\* ascending by days remaining and cut to the first 5; the morning notification
\* lists exactly the goals with 0 < days_until < 30, ascending and cut to the
\* first 3; a goal whose deadline is today, past, absent or unparseable is in
\* neither list.
C14_UpcomingDeadlines ==
    /\ Called("get_today_summary")
       => FirstDue(ret.report.deadlines, ret.user_id, 60, 5)
    /\ Called("send_morning_notification")
       => \A user_id \in Users : FirstDue(ret[user_id].upcoming, user_id, 30, 3)

\* C14 witness: a summary cut to 5 of 6 upcoming goals while the user also has
\* goals whose deadline is today, past, absent and unparseable
C14_Witness ==
    /\ Called("get_today_summary")
    /\ ret.user_id = "u1"
    /\ Cardinality(Due("u1", 60)) = 6
    /\ Len(ret.report.deadlines) = 5
    /\ ret.report.deadlines[1].days < ret.report.deadlines[5].days
    /\ \E g \in GoalsOf("u1") : g.deadline = None
    /\ \E g \in GoalsOf("u1") : g.deadline /= None /\ Unparseable(g.deadline[1])
    /\ \E g \in GoalsOf("u1") :
          g.deadline /= None /\ ~ Unparseable(g.deadline[1]) /\ DaysTo(g.deadline) = 0
    /\ \E g \in GoalsOf("u1") :
          g.deadline /= None /\ ~ Unparseable(g.deadline[1]) /\ DaysTo(g.deadline) < 0

\* the check-ins the store returns for the week of user_id
WeekOf(user_id) ==
    {c \in checkins : c.user_id = user_id /\ c.date >= ToOrdinal(today) - 7}

RECURSIVE SumIncome(_)
SumIncome(S) ==
    IF S = {} THEN 0
    ELSE LET c == CHOOSE x \in S : TRUE IN c.income + SumIncome(S \ {c})

\* C15: for a list of check-in records of any length get_weekly_report reports
\* a total income equal to the sum of the records' income fields and a workout
\* count equal to the number of records whose workout field is true.
C15_WeeklyTotals ==
    Called("get_weekly_report")
    => LET week == WeekOf(ret.user_id)
       IN  /\ ret.report.records = Cardinality(week)
           /\ ret.report.total_income = SumIncome(week)
           /\ ret.report.workouts_count = Cardinality({c \in week : c.workout})

\* C15 witness: a week of more than 7 records, one of them without a workout
C15_Witness ==
    /\ Called("get_weekly_report")
    /\ ret.user_id = "u1"
    /\ ret.report.records = 9
    /\ ret.report.workouts_count = 8
    /\ ret.report.total_income = 10000

\* C16: the weekly aggregate covers only check-ins dated within the trailing
\* 7-day window ending today: the check-ins returned name at most 7 calendar
\* dates, so with at most one check-in per day the workout count never
\* exceeds 7.
C16_SevenDayWindow ==
    Called("get_weekly_report")
    => /\ ret.report.records <= 7
       /\ ret.report.workouts_count <= 7

\* C18: when the store returns an empty goal list and/or an empty check-in
\* list, the three reports complete and hold no category or goal line, a
\* workout count of 0 and a total income of 0.
C18_EmptyStore ==
    /\ Called("get_today_summary") /\ GoalsOf(ret.user_id) = {}
       => ret.report.categories = <<>> /\ ret.report.deadlines = <<>>
    /\ Called("get_goals_list") /\ GoalsOf(ret.user_id) = {}
       => ret.report = <<>>
    /\ Called("get_weekly_report") /\ GoalsOf(ret.user_id) = {}
       => ret.report.bars = <<>>
    /\ Called("get_weekly_report") /\ WeekOf(ret.user_id) = {}
       => ret.report.workouts_count = 0 /\ ret.report.total_income = 0

\* C18 witness: a weekly report for a user without goals and without
\* check-ins, while another user has both
C18_Witness ==
    /\ Called("get_weekly_report")
    /\ ret.user_id = "u1"
    /\ GoalsOf("u1") = {} /\ GoalsOf("u2") /= {}
    /\ WeekOf("u1") = {} /\ WeekOf("u2") /= {}
    /\ ret.report.bars = <<>>
    /\ ret.report.workouts_count = 0
    /\ ret.report.total_income = 0

(***************************************************************************)
(* Writes to the store (src/database_supabase.py): goals are created and   *)
(* their values updated.  A goal's id is its place in StoreCatalogue, the  *)
(* rows that create_goal is asked to create, in the order of the requests. *)
(* A request to the database may fail: fail names the request of           *)
(* update_goal_value that raises ("none": all of them succeed).            *)
(***************************************************************************)
\* the progress log holds at most MaxLog rows
MaxLog == 2

\* the values written by updates
NewValues == 1..2

\* the (new_value, note) pairs update_goal_value is called with
Updates ==
    { [new_value |-> 1, note |-> None],
      [new_value |-> 2, note |-> Some("note")] }

Failures == {"none", "select", "update", "insert"}

\* goals 1 and 2 share user, category and name; goal 2 has the earlier deadline
StoreCatalogue ==
    << GoalRow(1, "u1", "finansy", "a", 2, 0, None, Some(<<2026, 1, 11>>)),
       GoalRow(2, "u1", "finansy", "a", 1, 0, None, Some(<<2026, 1, 2>>)),
       GoalRow(3, "u2", "sport", "b", 1, 0, Some(2), None) >>

\* the (category, name) pairs update_goal_by_name is called with
Named ==
    { [category |-> "finansy", name |-> "a"],
      [category |-> "sport", name |-> "b"],
      [category |-> "sport", name |-> "a"] }

\* the goal ids update_goal_value is called with: goal 1 is never asked for
RequestedIds == {2, 3}

\* SupabaseDatabase.create_goal: the new row starts with current_value 0
create_goal(id) == [StoreCatalogue[id] EXCEPT !.current_value = 0]

\* SupabaseDatabase.get_goal_by_id: the row with this id and owner, if any
get_goal_by_id(user_id, goal_id) ==
    LET found == SelectSeq(goals, LAMBDA g : g.id = goal_id /\ g.user_id = user_id)
    IN  IF found /= <<>> THEN Some(found[1]) ELSE None

\* mutant: the update is not narrowed to one goal id
update_rows_of_user(user_id, goal_id, new_value) ==
    [i \in DOMAIN goals |->
        IF goals[i].user_id = user_id
        THEN [goals[i] EXCEPT !.current_value = new_value]
        ELSE goals[i]]

\* .update({'current_value': new_value}).eq('id', goal_id).eq('user_id', user_id)
update_rows(user_id, goal_id, new_value) ==
    [i \in DOMAIN goals |->
        IF goals[i].id = goal_id /\ goals[i].user_id = user_id
        THEN [goals[i] EXCEPT !.current_value = new_value]
        ELSE goals[i]]

\* SupabaseDatabase.add_progress_log: log_data
log_data(user_id, goal_id, value, note) ==
    [user_id |-> user_id, goal_id |-> goal_id, value |-> value, note |-> note]

\* mutant: the goal is addressed by its id alone, whoever owns it
update_goal_value_by_id(user_id, goal_id, new_value, note, fail) ==
    LET found == SelectSeq(goals, LAMBDA g : g.id = goal_id)
        updated == [i \in DOMAIN goals |->
                      IF goals[i].id = goal_id
                      THEN [goals[i] EXCEPT !.current_value = new_value]
                      ELSE goals[i]]
    IN  IF found = <<>> \/ fail /= "none"
        THEN [raised |-> "ValueError", goals |-> goals, progress_log |-> progress_log]
        ELSE [raised |-> "",
              goals |-> updated,
              progress_log |-> Append(progress_log,
                                      log_data(user_id, goal_id, new_value, note))]

\* SupabaseDatabase.update_goal_value: what it returns or raises, and the
\* tables it leaves behind
update_goal_value(user_id, goal_id, new_value, note, fail) ==
    LET found == IF fail = "select" THEN None ELSE get_goal_by_id(user_id, goal_id)
        updated == update_rows(user_id, goal_id, new_value)
    IN  IF found = None
        THEN [raised |-> "ValueError", goals |-> goals, progress_log |-> progress_log]
        ELSE IF fail = "update"
        THEN [raised |-> "Exception", goals |-> goals, progress_log |-> progress_log]
        ELSE IF fail = "insert"
        THEN [raised |-> "Exception", goals |-> updated, progress_log |-> progress_log]
        ELSE [raised |-> "",
              goals |-> updated,
              progress_log |-> Append(progress_log,
                                      log_data(user_id, goal_id, new_value, note))]

\* SupabaseDatabase.update_goal_by_name: the first goal of the category with
\* this name, in the order of get_user_goals
update_goal_by_name(user_id, category, name, value, fail) ==
    LET named == SelectSeq(get_user_goals(user_id, Some(category)),
                           LAMBDA g : g.name = name)
    IN  IF named = <<>>
        THEN [raised |-> "ValueError", goal_id |-> None,
              goals |-> goals, progress_log |-> progress_log]
        ELSE LET out == update_goal_value(user_id, named[1].id, value, None, fail)
             IN  [raised |-> out.raised, goal_id |-> Some(named[1].id),
                  goals |-> out.goals, progress_log |-> out.progress_log]

StoreInit ==
    /\ goals = <<>>
    /\ progress_log = <<>>
    /\ checkins = {}
    /\ users = <<>>
    /\ settings = {}
    /\ today = [y |-> 2026, m |-> 1, d |-> 2]
    /\ goal = NoGoal
    /\ op = "none"
    /\ ret = None

\* create_goal for the next row of the catalogue
CreateGoal ==
    /\ Len(goals) < Len(StoreCatalogue)
    /\ LET id == Len(goals) + 1
       IN  /\ goals' = Append(goals, create_goal(id))
           /\ ret' = [goal_id |-> Some(id)]
    /\ op' = "create_goal"
    /\ UNCHANGED <<goal, today, progress_log, checkins, users, settings>>

UpdateGoalValue ==
    /\ \E user_id \in Users, goal_id \in RequestedIds, u \in Updates, fail \in Failures :
          LET new_value == u.new_value
              note == u.note
              out == update_goal_value(user_id, goal_id, new_value, note, fail)
          IN  /\ Len(out.progress_log) <= MaxLog
              /\ goals' = out.goals
              /\ progress_log' = out.progress_log
              /\ ret' = [ user_id |-> user_id, goal_id |-> Some(goal_id),
                          new_value |-> new_value, note |-> note,
                          raised |-> out.raised ]
    /\ op' = "update_goal_value"
    /\ UNCHANGED <<goal, today, checkins, users, settings>>

UpdateGoalByName ==
    /\ \E user_id \in Users, n \in Named, value \in NewValues, fail \in Failures :
          LET out == update_goal_by_name(user_id, n.category, n.name, value, fail)
          IN  /\ Len(out.progress_log) <= MaxLog
              /\ goals' = out.goals
              /\ progress_log' = out.progress_log
              /\ ret' = [ user_id |-> user_id, goal_id |-> out.goal_id,
                          new_value |-> value, note |-> None,
                          raised |-> out.raised ]
    /\ op' = "update_goal_by_name"
    /\ UNCHANGED <<goal, today, checkins, users, settings>>

StoreNext ==
    \/ CreateGoal
    \/ UpdateGoalValue
    \/ UpdateGoalByName

StoreSpec == StoreInit /\ [][StoreNext]_vars

(***************************************************************************)
(* Properties of the writes (StoreSpec)                                    *)
(***************************************************************************)
Updated == op \in {"update_goal_value", "update_goal_by_name"}

\* the fields of a goal row other than current_value
Fixed(g) ==
    [ id |-> g.id, user_id |-> g.user_id, category |-> g.category, name |-> g.name,
      target_value |-> g.target_value, initial_value |-> g.initial_value,
      deadline |-> g.deadline ]

\* the step is an update that changes at most the current_value of the goal
\* it addresses, to the value it was given
UpdateFrame ==
    op' \in {"update_goal_value", "update_goal_by_name"}
    => /\ DOMAIN goals' = DOMAIN goals
       /\ \A i \in DOMAIN goals :
             \/ goals'[i] = goals[i]
             \/ /\ ret'.goal_id = Some(goals[i].id)
                /\ ret'.user_id = goals[i].user_id
                /\ goals'[i] = [goals[i] EXCEPT !.current_value = ret'.new_value]

\* C19: after any sequence of update_goal_value / update_goal_by_name calls
\* every goal's target_value, category, name, initial_value and deadline equal
\* their values at creation; an update changes only the current_value of the
\* one goal it addresses and leaves every other goal unchanged.
C19_UpdateFrame ==
    /\ [](\A i \in DOMAIN goals : Fixed(goals[i]) = Fixed(StoreCatalogue[goals[i].id]))
    /\ [][UpdateFrame]_vars

\* C19 witness: an update by name has changed the value of goal 2 while goal 1,
\* of the same user, category and name, and the goal of the other user keep
\* the values they had
C19_Witness ==
    /\ op = "update_goal_by_name"
    /\ ret.raised = ""
    /\ ret.goal_id = Some(2)
    /\ Len(goals) = 3
    /\ goals[2].current_value = ret.new_value
    /\ goals[1].current_value /= ret.new_value
    /\ goals[3].current_value /= ret.new_value
    /\ \A i \in DOMAIN goals : Fixed(goals[i]) = Fixed(StoreCatalogue[i])

\* the progress-log entries of one goal, oldest first
LogOf(goal_id) == SelectSeq(progress_log, LAMBDA e : e.goal_id = goal_id)

\* C20: every successful update_goal_value appends one progress-log entry
\* holding the goal id, the new value and the note, and existing entries stay
\* as they are, so that the last entry of an updated goal's log equals the
\* goal's current_value.
C20_LogFollowsValue ==
    /\ Updated /\ ret.raised = ""
       => /\ progress_log /= <<>>
          /\ Last(progress_log).goal_id = ret.goal_id[1]
          /\ Last(progress_log).value = ret.new_value
          /\ Last(progress_log).note = ret.note
    /\ \A i \in DOMAIN goals :
          LogOf(goals[i].id) /= <<>>
          => Last(LogOf(goals[i].id)).value = goals[i].current_value

(***************************************************************************)
(* Properties of the reports as readers of the store (ReportSpec)          *)
(***************************************************************************)
\* C21: status and percent are derived on each query and never stored:
\* get_today_summary, get_goals_list and get_weekly_report, and with them the
\* calls of calculate_progress_percent and get_progress_status they make, leave
\* every goal record, progress-log entry, check-in and setting unchanged.
C21_ReportsStoreNothing ==
    [][ op' \in {"get_today_summary", "get_goals_list", "get_weekly_report"}
        => /\ goals' = goals
           /\ progress_log' = progress_log
           /\ checkins' = checkins
           /\ settings' = settings
           /\ users' = users ]_vars

\* C21 witness: a goals list with a status line has been produced over a store
\* that holds goals, progress-log entries, check-ins and settings
C21_Witness ==
    /\ Called("get_goals_list")
    /\ \E i \in DOMAIN ret.report :
          \E j \in DOMAIN ret.report[i].lines : ret.report[i].lines[j].status /= None
    /\ goals /= <<>>
    /\ progress_log /= <<>>
    /\ \E c \in checkins : c.user_id = ret.user_id
    /\ settings /= {}

(***************************************************************************)
(* Users (src/database_supabase.py): table users, in insertion order.  The *)
(* database gives the n-th inserted row the id UserIds[n].                 *)
(***************************************************************************)
\* the table users holds at most MaxUsers rows
MaxUsers == 3

UserIds == <<"u1", "u2", "u3", "u4", "u5">>

TelegramIds == {101, 102, 103}

\* mutant: the user is inserted without looking for an existing row
get_or_create_user_insert(telegram_user_id, fail) ==
    LET new_user == [ id |-> UserIds[Len(users) + 1],
                      telegram_user_id |-> telegram_user_id,
                      is_active |-> TRUE ]
    IN  IF fail /= "none"
        THEN [raised |-> "Exception", user |-> None, users |-> users]
        ELSE [raised |-> "", user |-> Some(new_user), users |-> Append(users, new_user)]

\* SupabaseDatabase.get_or_create_user: what it returns or raises, and the
\* table it leaves behind; fail names the request that raises
get_or_create_user(telegram_user_id, fail) ==
    LET found == SelectSeq(users, LAMBDA u : u.telegram_user_id = telegram_user_id)
        new_user == [ id |-> UserIds[Len(users) + 1],
                      telegram_user_id |-> telegram_user_id,
                      is_active |-> TRUE ]
    IN  IF fail = "select"
        THEN [raised |-> "Exception", user |-> None, users |-> users]
        ELSE IF found /= <<>>
        THEN [raised |-> "", user |-> Some(found[1]), users |-> users]
        ELSE IF fail = "insert"
        THEN [raised |-> "Exception", user |-> None, users |-> users]
        ELSE [raised |-> "", user |-> Some(new_user), users |-> Append(users, new_user)]

\* SupabaseDatabase.update_user(user_id, is_active=...): the rows after the update
update_user(user_id, is_active) ==
    [i \in DOMAIN users |->
        IF users[i].id = user_id THEN [users[i] EXCEPT !.is_active = is_active]
        ELSE users[i]]

UserInit ==
    /\ users = <<>>
    /\ settings = {}
    /\ goals = <<>>
    /\ progress_log = <<>>
    /\ checkins = {}
    /\ today = [y |-> 2026, m |-> 1, d |-> 2]
    /\ goal = NoGoal
    /\ op = "none"
    /\ ret = None

GetOrCreateUser ==
    /\ \E telegram_user_id \in TelegramIds, fail \in {"none", "select", "insert"} :
          LET out == get_or_create_user(telegram_user_id, fail)
          IN  /\ Len(out.users) <= MaxUsers
              /\ users' = out.users
              /\ ret' = [ telegram_user_id |-> telegram_user_id,
                          raised |-> out.raised, user |-> out.user ]
    /\ op' = "get_or_create_user"
    /\ UNCHANGED <<goal, today, goals, progress_log, checkins, settings>>

UpdateUser ==
    /\ \E i \in DOMAIN users, is_active \in BOOLEAN :
          /\ users' = update_user(users[i].id, is_active)
          /\ ret' = [user_id |-> users[i].id, is_active |-> is_active]
    /\ op' = "update_user"
    /\ UNCHANGED <<goal, today, goals, progress_log, checkins, settings>>

UserNext ==
    \/ GetOrCreateUser
    \/ UpdateUser

UserSpec == UserInit /\ [][UserNext]_vars

\* the rows of table users with this telegram_user_id
UsersOf(telegram_user_id) ==
    {i \in DOMAIN users : users[i].telegram_user_id = telegram_user_id}

\* a step of get_or_create_user: the call for a known telegram_user_id only
\* reads and returns the row that was there, the call for a new one adds
\* exactly the row it returns
GetOrCreateStep ==
    op' = "get_or_create_user"
    => LET known == UsersOf(ret'.telegram_user_id)
       IN  IF known /= {}
           THEN /\ users' = users
                /\ ret'.raised = "" => \E i \in known : ret'.user = Some(users[i])
           ELSE IF ret'.raised = ""
           THEN /\ Len(users') = Len(users) + 1
                /\ SubSeq(users', 1, Len(users)) = users
                /\ ret'.user = Some(Last(users'))
                /\ Last(users').telegram_user_id = ret'.telegram_user_id
           ELSE users' = users

\* C22: after any sequence of sequential get_or_create_user calls the users
\* table holds exactly one record per telegram_user_id that was passed, and
\* every call with the same telegram_user_id returns that record's id: the
\* first call creates, later calls only read.
C22_OneUserPerTelegramId ==
    /\ [](\A t \in TelegramIds : Cardinality(UsersOf(t)) <= 1)
    /\ [](\A i, j \in DOMAIN users : users[i].id = users[j].id => i = j)
    /\ [](op = "get_or_create_user" /\ ret.raised = ""
          => /\ Cardinality(UsersOf(ret.telegram_user_id)) = 1
             /\ \E i \in UsersOf(ret.telegram_user_id) : ret.user[1].id = users[i].id)
    /\ [][GetOrCreateStep]_vars

\* C22 witness: a later call for a telegram_user_id that already has a row
\* returns that row, with other users in the table
C22_Witness ==
    /\ op = "get_or_create_user"
    /\ ret.raised = ""
    /\ Len(users) = 3
    /\ ret.telegram_user_id = users[1].telegram_user_id
    /\ ret.user = Some(users[1])
    /\ Cardinality(UsersOf(ret.telegram_user_id)) = 1

(***************************************************************************)
(* Default goals (SupabaseDatabase.init_default_goals).  Names are         *)
(* transliterated; the unit of a goal plays no part and is left out.       *)
(***************************************************************************)
\* the table goals holds at most MaxGoals rows
MaxGoals == 20

Template(category, name, target_value, current_value, initial_value, deadline) ==
    [ category |-> category, name |-> name, target_value |-> target_value,
      current_value |-> current_value, initial_value |-> initial_value,
      deadline |-> deadline ]

\* default_goals
default_goals ==
    << Template("finansy", "dohod_1m", 1000000, 0, None, Some(<<2026, 2, 28>>)),
       Template("finansy", "dohod_2m", 2000000, 0, None, Some(<<2026, 5, 31>>)),
       Template("finansy", "dohod_5m", 5000000, 0, None, Some(<<2026, 11, 30>>)),
       Template("finansy", "istochniki_dohoda", 4, 0, None, Some(<<2026, 6, 30>>)),
       Template("sport", "ves", 80, 87, Some(105), Some(<<2026, 6, 30>>)),
       Template("sport", "trenirovki_v_nedelyu", 4, 0, None, None),
       Template("sport", "marafony", 2, 0, None, Some(<<2026, 9, 30>>)),
       Template("pokupki", "voyah_free", 1, 0, None, Some(<<2026, 6, 30>>)),
       Template("pokupki", "kvartira_v_moskve", 25000000, 0, None, Some(<<2026, 6, 30>>)),
       Template("puteshestviya", "novye_strany", 12, 0, None, Some(<<2026, 12, 31>>)) >>

\* the sets of template rows whose create_goal raises during one call
FailedCreates == (SUBSET {1, 5, 10}) \cup {1..Len(default_goals)}

\* create_goal: goal_data, the row inserted, with the id the database gives it
goal_data(id, user_id, category, name, target_value, initial_value, deadline) ==
    [ id |-> id, user_id |-> user_id, category |-> category, name |-> name,
      target_value |-> target_value, current_value |-> 0,
      initial_value |-> initial_value, deadline |-> deadline ]

\* the loop "for goal_data in default_goals" over the first n template rows:
\* the table after it; a create_goal that raises is skipped
RECURSIVE CreateDefaults(_, _, _, _)
CreateDefaults(table, user_id, n, failed) ==
    IF n = 0 THEN table
    ELSE LET before == CreateDefaults(table, user_id, n - 1, failed)
             t == default_goals[n]
         IN  IF n \in failed THEN before
             ELSE Append(before,
                         goal_data(Len(before) + 1, user_id, t.category, t.name,
                                   t.target_value, t.initial_value, t.deadline))

\* mutant: the defaults are created without looking for existing goals
init_default_goals_unchecked(user_id, failed) ==
    LET table == CreateDefaults(goals, user_id, Len(default_goals), failed)
    IN  [ returned |-> SubSeq(table, Len(goals) + 1, Len(table)), goals |-> table ]

\* SupabaseDatabase.init_default_goals: the list it returns and the table it
\* leaves behind
init_default_goals(user_id, failed) ==
    LET existing_goals == get_user_goals(user_id, None)
        table == CreateDefaults(goals, user_id, Len(default_goals), failed)
    IN  IF Len(existing_goals) > 0
        THEN [ returned |-> existing_goals, goals |-> goals ]
        ELSE [ returned |-> SubSeq(table, Len(goals) + 1, Len(table)), goals |-> table ]

DefaultsInit ==
    /\ users = ReportUsers
    /\ settings = {}
    /\ goals = <<>>
    /\ progress_log = <<>>
    /\ checkins = {}
    /\ today = [y |-> 2026, m |-> 1, d |-> 2]
    /\ goal = NoGoal
    /\ op = "none"
    /\ ret = None

InitDefaultGoals ==
    /\ \E user_id \in Users, failed \in FailedCreates :
          LET out == init_default_goals(user_id, failed)
          IN  /\ Len(out.goals) <= MaxGoals
              /\ goals' = out.goals
              /\ ret' = [user_id |-> user_id, returned |-> out.returned]
    /\ op' = "init_default_goals"
    /\ UNCHANGED <<goal, today, progress_log, checkins, users, settings>>

\* get_goals_list over the goals held: the percent of every goal
DefaultsGoalsList ==
    /\ \E user_id \in Users :
          ret' = [user_id |-> user_id, report |-> get_goals_list(user_id)]
    /\ op' = "get_goals_list"
    /\ UNCHANGED <<goal, today, store>>

DefaultsNext ==
    \/ InitDefaultGoals
    \/ DefaultsGoalsList

DefaultsSpec == DefaultsInit /\ [][DefaultsNext]_vars

\* the rows of a goals table owned by user_id, in the order of the table
RowsOf(table, user_id) == SelectSeq(table, LAMBDA g : g.user_id = user_id)

\* a step of init_default_goals: the goals of the other users stay as they
\* are, and for a user who has a goal nothing is created and the goals the
\* user has are returned
InitDefaultsStep ==
    op' = "init_default_goals"
    => /\ \A v \in Users \ {ret'.user_id} : RowsOf(goals', v) = RowsOf(goals, v)
       /\ GoalsOf(ret'.user_id) /= {}
          => /\ goals' = goals
             /\ Len(ret'.returned) = Cardinality(GoalsOf(ret'.user_id))
             /\ {ret'.returned[i] : i \in DOMAIN ret'.returned} = GoalsOf(ret'.user_id)

C26_TemplateCurrentValue ==
    /\ \A i \in DOMAIN goals :
          \E k \in DOMAIN default_goals :
             /\ default_goals[k].category = goals[i].category
             /\ default_goals[k].name = goals[i].name
             /\ default_goals[k].target_value = goals[i].target_value
             /\ default_goals[k].initial_value = goals[i].initial_value
             /\ default_goals[k].current_value = goals[i].current_value
    /\ \A i \in DOMAIN goals :
          goals[i].name = "ves"
          => /\ goals[i].current_value = 87
             /\ goals[i].initial_value = Some(105)
             /\ goals[i].target_value = 80
             /\ goal_percent(goals[i]) = Num(72)

(***************************************************************************)
(* Notifications (src/scheduler.py).  A job of the scheduler reads the     *)
(* users to notify and then handles them one by one; it gives way to other *)
(* handlers while a message is being sent, so that settings and users may  *)
(* change between two users of one run.  While a job runs, op names it and *)
(* ret holds its local state: the users read at its start (with the ids    *)
(* that were active then), the place it has reached and the messages sent. *)
(***************************************************************************)
\* SupabaseDatabase.get_setting: the stored value, or the default
get_setting(user_id, key, default) ==
    LET rows == {r \in settings : r.user_id = user_id /\ r.key = key}
    IN  IF rows /= {} THEN (CHOOSE r \in rows : TRUE).value ELSE default

\* SupabaseDatabase.set_setting: upsert on (user_id, key)
set_setting(user_id, key, value) ==
    {r \in settings : ~ (r.user_id = user_id /\ r.key = key)}
        \cup {[user_id |-> user_id, key |-> key, value |-> value]}

\* SupabaseDatabase.get_users_with_notifications_enabled
get_users_with_notifications_enabled ==
    LET Enabled(u) == /\ u.is_active
                      /\ get_setting(u.id, "notifications_enabled", "on") = "on"
    IN  SelectSeq(users, Enabled)

\* mutant: the job trusts the list it read at its start
send_allowed_unchecked(user_id) == TRUE

\* the check "notifications_enabled != 'on': continue" made for each user
send_allowed(user_id) == get_setting(user_id, "notifications_enabled", "on") = "on"

Jobs == {"send_morning_notification", "send_evening_notification"}

\* the text of the message a job composes for one user
message_text(job, user_id) ==
    IF job = "send_morning_notification"
    THEN Some(morning_message(user_id))
    ELSE None

Running == op \in Jobs /\ ret.next <= Len(ret.users)

NotifyInit ==
    /\ users = ReportUsers
    /\ settings = {}
    /\ goals = <<>>
    /\ progress_log = <<>>
    /\ checkins = {}
    /\ today = [y |-> 2026, m |-> 1, d |-> 2]
    /\ goal = NoGoal
    /\ op = "none"
    /\ ret = None

\* /remind on, /remind off
Remind ==
    /\ \E user_id \in Users, value \in {"on", "off"} :
          settings' = set_setting(user_id, "notifications_enabled", value)
    /\ UNCHANGED <<goal, today, op, ret, goals, progress_log, checkins, users>>

\* update_user(user_id, is_active=...)
SetActive ==
    /\ \E user_id \in Users, is_active \in BOOLEAN :
          users' = update_user(user_id, is_active)
    /\ UNCHANGED <<goal, today, op, ret, goals, progress_log, checkins, settings>>

\* a job starts: users = self.db.get_users_with_notifications_enabled()
StartJob ==
    /\ ~ Running
    /\ \E job \in Jobs :
          /\ op' = job
          /\ ret' = [ users  |-> get_users_with_notifications_enabled,
                      active |-> {users[i].id : i \in {j \in DOMAIN users :
                                                            users[j].is_active}},
                      next   |-> 1,
                      sent   |-> <<>> ]
    /\ UNCHANGED <<goal, today, store>>

\* one turn of "for user in users": the check of the setting, the message and
\* bot.send_message, which may raise
NotifyUser ==
    /\ Running
    /\ LET user == ret.users[ret.next]
       IN  \E delivered \in BOOLEAN :
              ret' = [ret EXCEPT
                        !.next = @ + 1,
                        !.sent = IF send_allowed(user.id) /\ delivered
                                 THEN Append(@, [ user_id |-> user.id,
                                                  chat_id |-> user.telegram_user_id,
                                                  text    |-> message_text(op, user.id) ])
                                 ELSE @]
    /\ UNCHANGED <<goal, today, op, store>>

NotifyNext ==
    \/ Remind
    \/ SetActive
    \/ StartJob
    \/ NotifyUser

NotifySpec == NotifyInit /\ [][NotifyNext]_vars

\* the notifications_enabled setting of user_id is 'on' or unset
OnOrUnset(user_id) ==
    \A r \in settings :
        r.user_id = user_id /\ r.key = "notifications_enabled" => r.value = "on"

\* a step in which a job sends a message: the user was active when the job
\* read its users and the user's setting is 'on' or unset as the message goes
\* out
SendStep ==
    op \in Jobs /\ op' = op /\ Len(ret'.sent) > Len(ret.sent)
    => /\ Len(ret'.sent) = Len(ret.sent) + 1
       /\ Last(ret'.sent).user_id \in ret.active
       /\ OnOrUnset(Last(ret'.sent).user_id)
       /\ \E i \in DOMAIN users :
             /\ users[i].id = Last(ret'.sent).user_id
             /\ users[i].telegram_user_id = Last(ret'.sent).chat_id

Owns(user_id, goal_id) ==
    \E i \in DOMAIN goals : goals[i].id = goal_id /\ goals[i].user_id = user_id

\* a step of update_goal_value for a goal that is missing or owned by someone
\* else raises and changes nothing, and no update changes a goal of a user
\* other than the caller
ForeignUpdateStep ==
    /\ op' = "update_goal_value" /\ ~ Owns(ret'.user_id, ret'.goal_id[1])
       => /\ ret'.raised /= ""
          /\ goals' = goals
          /\ progress_log' = progress_log
    /\ op' \in {"update_goal_value", "update_goal_by_name"}
       => /\ DOMAIN goals' = DOMAIN goals
          /\ \A i \in DOMAIN goals :
                goals[i].user_id /= ret'.user_id => goals'[i] = goals[i]

\* C25: update_goal_value for a goal_id that does not exist or belongs to a
\* different user raises an error and leaves every goal's current_value and the
\* whole progress log unchanged; no call made with one user's id changes a goal
\* owned by another user.
C25_ForeignUpdateRejected == [][ForeignUpdateStep]_vars

\* C25 witness: u1 asked for an update of the goal of u2, which exists; the
\* call raised
C25_Witness ==
    /\ op = "update_goal_value"
    /\ ret.user_id = "u1"
    /\ ret.goal_id = Some(3)
    /\ ret.raised = "ValueError"
    /\ Owns("u2", 3)
    /\ progress_log /= <<>>

\* C27: update_goal_value is all-or-nothing: when the call raises, the goal's
\* current_value, and with it every table, is as it was before the call.
C27_AllOrNothing ==
    [][ op' \in {"update_goal_value", "update_goal_by_name"} /\ ret'.raised /= ""
        => goals' = goals /\ progress_log' = progress_log ]_vars

(***************************************************************************)
(* Relative updates of the command handlers (src/bot.py over               *)
(* src/database.py).  A handler reads the goal with one request and writes *)
(* the new value with another; each request opens its own connection and   *)
(* nothing ties the two together.  Handlers 1 and 2 are two bot processes  *)
(* over the same database file, each serving one command.  Goal names are  *)
(* transliterated, and a name is looked for as a whole.                    *)
(***************************************************************************)
Handlers == {1, 2}

\* the current values the two goals start with
StartValues == {0, 3}

\* the goals of the race, in the order of ORDER BY category, deadline
RaceCatalogue(v1, v2) ==
    << GoalRow(1, "u1", "puteshestviya", "strany", 5, v1, None, None),
       GoalRow(2, "u1", "sport", "trenirovki", 4, v2, None, None) >>

\* the increment commands: the category that is read, the name looked for,
\* the change and the note of the log row
IncrementCommands ==
    { [text |-> "done trenirovka", category |-> Some("sport"),
       name |-> "trenirovki", change |-> 1, note |-> Some("Trenirovka vypolnena")],
      [text |-> "done strana", category |-> Some("puteshestviya"),
       name |-> "strany", change |-> 1, note |-> Some("Poseshchena novaya strana")],
      [text |-> "done marafon", category |-> Some("sport"),
       name |-> "marafon", change |-> 1, note |-> Some("Marafon probezhan")],
      [text |-> "update trenirovki +1", category |-> None,
       name |-> "trenirovki", change |-> 1, note |-> None] }

\* Database.get_goals_by_category
get_goals_by_category(category) ==
    SelectSeq(goals, LAMBDA g : category = None \/ g.category = category[1])

\* the handlers' loop over goals_list: the first goal with the name, if any
goal_found(goals_list, name) ==
    LET named == SelectSeq(goals_list, LAMBDA g : g.name = name)
    IN  IF named = <<>> THEN None ELSE Some(named[1])

\* Database.update_goal_value: UPDATE by id and INSERT into the log, one commit
Database_update_goal_value(goal_id, new_value, note) ==
    [ goals |-> [i \in DOMAIN goals |->
                    IF goals[i].id = goal_id
                    THEN [goals[i] EXCEPT !.current_value = new_value]
                    ELSE goals[i]],
      progress_log |-> Append(progress_log,
                              [goal_id |-> goal_id, value |-> new_value, note |-> note]) ]

Idle == [pc |-> "idle", command |-> None, goal |-> None]

RaceInit ==
    /\ \E v1 \in StartValues, v2 \in StartValues :
          /\ goals = RaceCatalogue(v1, v2)
          /\ ret = [start |-> <<v1, v2>>, handler |-> [h \in Handlers |-> Idle]]
    /\ progress_log = <<>>
    /\ checkins = {}
    /\ users = <<>>
    /\ settings = {}
    /\ today = [y |-> 2026, m |-> 1, d |-> 2]
    /\ goal = NoGoal
    /\ op = "increment"

\* a handler is called with its command
Receive(h) ==
    /\ ret.handler[h].pc = "idle"
    /\ \E c \in IncrementCommands :
          ret' = [ret EXCEPT !.handler[h] = [pc |-> "received", command |-> Some(c),
                                             goal |-> None]]
    /\ UNCHANGED <<goal, today, op, goals, progress_log, checkins, users, settings>>

\* goals_list = db.get_goals_by_category(...) and the search for the goal;
\* a handler that finds no goal replies and is done
ReadGoal(h) ==
    /\ ret.handler[h].pc = "received"
    /\ LET c == ret.handler[h].command[1]
           found == goal_found(get_goals_by_category(c.category), c.name)
       IN  ret' = [ret EXCEPT !.handler[h].goal = found,
                              !.handler[h].pc = IF found = None THEN "done" ELSE "read"]
    /\ UNCHANGED <<goal, today, op, goals, progress_log, checkins, users, settings>>

\* new_value = goal['current_value'] + change; db.update_goal_value(...)
WriteGoal(h) ==
    /\ ret.handler[h].pc = "read"
    /\ LET c == ret.handler[h].command[1]
           g == ret.handler[h].goal[1]
           out == Database_update_goal_value(g.id, g.current_value + c.change, c.note)
       IN  /\ goals' = out.goals
           /\ progress_log' = out.progress_log
    /\ ret' = [ret EXCEPT !.handler[h].pc = "done"]
    /\ UNCHANGED <<goal, today, op, checkins, users, settings>>

RaceNext ==
    \E h \in Handlers :
        \/ Receive(h)
        \/ ReadGoal(h)
        \/ WriteGoal(h)

RaceSpec == RaceInit /\ [][RaceNext]_vars

\* both handlers have written the same goal
BothWrote(id) ==
    \A h \in Handlers :
        /\ ret.handler[h].pc = "done"
        /\ ret.handler[h].goal /= None
        /\ ret.handler[h].goal[1].id = id

\* C28: relative updates are not lost under interleaving: when two increment
\* commands on the same goal run concurrently, each reading current_value and
\* then writing current_value + 1, the goal's final current_value is the
\* initial value plus 2 and the progress log holds two distinct values.
C28_NoLostUpdate ==
    \A id \in DOMAIN goals :
        BothWrote(id)
        => /\ goals[id].current_value = ret.start[id] + 2
           /\ Len(progress_log) = 2
           /\ progress_log[1].value /= progress_log[2].value

(***************************************************************************)
(* Decreasing goals below their target (Spec)                              *)
(***************************************************************************)
\* a goal that counts down: initial > target > 0
Decreasing ==
    /\ goal.initial_value /= None
    /\ goal.initial_value[1] > goal.target_value
    /\ goal.target_value > 0

\* C29: for a decreasing goal (initial > target > 0) the percent never falls
\* when current is lowered, it is 100 for every current <= target, and a goal
\* without deadline whose current is at or below the target is completed.
C29_DecreasingMonotone ==
    /\ ( Called("calculate_progress_percent") /\ Decreasing )
       => /\ (goal.current_value <= goal.target_value => ret.val = Num(100))
          /\ \A lower \in Values :
                lower <= goal.current_value
                => Ge(calculate_progress_percent(lower, goal.target_value,
                                                 goal.initial_value).val,
                      ret.val)
    /\ ( /\ Called("get_progress_status")
         /\ Decreasing
         /\ Falsy(goal.deadline)
         /\ goal.current_value <= goal.target_value )
       => ret = "completed"

(***************************************************************************)
(* Daily check-ins (src/database_supabase.py, src/bot.py).  A check-in row *)
(* carries user_id, date, workout, income, new_connections, weight and     *)
(* notes; a column that was never written is None.                         *)
(***************************************************************************)
\* the days a check-in is written for: date_str absent (today) or the day before
CheckinDates == {None, Some([y |-> 2026, m |-> 1, d |-> 1])}

\* the arguments add_daily_checkin is called with, each with the names of the
\* arguments the call site supplies: the call of test 6, a workout, an income
CheckinCalls ==
    { [workout |-> TRUE, income |-> 500, new_connections |-> 0,
       weight |-> Some(85), notes |-> Some("otmetka"),
       supplied |-> {"workout", "income", "weight", "notes"}],
      [workout |-> TRUE, income |-> 0, new_connections |-> 0,
       weight |-> None, notes |-> None,
       supplied |-> {"workout"}],
      [workout |-> FALSE, income |-> 300, new_connections |-> 0,
       weight |-> None, notes |-> None,
       supplied |-> {"income"}] }

\* the text of a /log entry
LogNotes == {"zapis"}

\* the check-in of the user for the day, if any
get_daily_checkin(user_id, day) ==
    {c \in checkins : c.user_id = user_id /\ c.date = day}

\* SupabaseDatabase.add_daily_checkin: the table after
\* upsert(checkin_data, on_conflict='user_id,date'); checkin_data always holds
\* workout, income, new_connections and notes, and weight when it is not None
add_daily_checkin(user_id, date_str, workout, income, new_connections, weight, notes) ==
    LET day == IF date_str = None THEN ToOrdinal(today) ELSE ToOrdinal(date_str[1])
        old == get_daily_checkin(user_id, day)
        kept == IF old = {} THEN None ELSE (CHOOSE c \in old : TRUE).weight
        row == [ user_id |-> user_id, date |-> day,
                 workout |-> workout, income |-> income,
                 new_connections |-> new_connections,
                 weight |-> IF weight /= None THEN weight ELSE kept,
                 notes |-> notes ]
    IN  (checkins \ old) \cup {row}

CheckinInit ==
    /\ checkins = {}
    /\ goals = <<>>
    /\ progress_log = <<>>
    /\ users = ReportUsers
    /\ settings = {}
    /\ today = [y |-> 2026, m |-> 1, d |-> 2]
    /\ goal = NoGoal
    /\ op = "none"
    /\ ret = None

AddDailyCheckin ==
    /\ \E user_id \in Users, date_str \in CheckinDates, c \in CheckinCalls :
          /\ checkins' = add_daily_checkin(user_id, date_str, c.workout, c.income,
                                           c.new_connections, c.weight, c.notes)
          /\ ret' = [user_id |-> user_id, date_str |-> date_str, supplied |-> c.supplied]
    /\ op' = "add_daily_checkin"
    /\ UNCHANGED <<goal, today, goals, progress_log, users, settings>>

\* log_entry: db.add_daily_checkin(notes=note), every other argument at its default
LogEntry ==
    /\ \E user_id \in Users, note \in LogNotes :
          /\ checkins' = add_daily_checkin(user_id, None, FALSE, 0, 0, None, Some(note))
          /\ ret' = [user_id |-> user_id, date_str |-> None, supplied |-> {"notes"}]
    /\ op' = "log_entry"
    /\ UNCHANGED <<goal, today, goals, progress_log, users, settings>>

CheckinNext ==
    \/ AddDailyCheckin
    \/ LogEntry
    \/ ReportWeekly

CheckinSpec == CheckinInit /\ [][CheckinNext]_vars

\* at most one check-in per (user, date)
OnePerDay ==
    \A a \in checkins, b \in checkins :
        a.user_id = b.user_id /\ a.date = b.date => a = b

\* a write changes, in a row that was there, only the columns supplied, and
\* the week's workout count and income total do not fall
SuppliedOnlyStep ==
    \A user_id \in Users, date_str \in CheckinDates :
        ( /\ op' \in {"add_daily_checkin", "log_entry"}
          /\ ret'.user_id = user_id
          /\ ret'.date_str = date_str )
        => LET day == IF date_str = None THEN ToOrdinal(today)
                      ELSE ToOrdinal(date_str[1])
               old == get_daily_checkin(user_id, day)
               new == get_daily_checkin(user_id, day)'
           IN  /\ \A a \in old, b \in new :
                     \A f \in DOMAIN a \ {"user_id", "date"} :
                        f \notin ret'.supplied => b[f] = a[f]
               /\ op' = "log_entry"
                  => /\ weekly_workouts(get_weekly_checkins(user_id))'
                            >= weekly_workouts(get_weekly_checkins(user_id))
                     /\ weekly_income(get_weekly_checkins(user_id))'
                            >= weekly_income(get_weekly_checkins(user_id))

\* C30: there is at most one check-in per (user, date), and add_daily_checkin
\* on a date that already has a check-in changes only the fields explicitly
\* supplied: a /log entry (notes only) written after a check-in with workout
\* true and income > 0 for the same day leaves that day's workout and income
\* unchanged, so the weekly workout count and income total do not decrease.
C30_CheckinSuppliedOnly == []OnePerDay /\ [][SuppliedOnlyStep]_vars

====
